---- MODULE Spec2Model ----
(***************************************************************************)
(* A model of crowd_code_player/replay_file.py: the replay loop of         *)
(* replay_trace (keys, pause, speed, per-file content and scroll, the      *)
(* inter-event wait) and the two pure helpers offset_to_yx / apply_change. *)
(*                                                                         *)
(* Strings are sequences of one-character strings.  The speed factor and   *)
(* the sleep durations are exact rationals [n, d] in lowest terms.         *)
(***************************************************************************)
EXTENDS Integers, Sequences, FiniteSets, TLC

VARIABLES
    N,                    \* len(df): number of rows of the sorted log
    i,                    \* the loop index of `for i in range(len(df))`
    pc,                   \* where the program is: load, top, paused, event, wait, done, crashed
    paused,               \* local `paused`
    speed_factor,         \* local `speed_factor` (a rational)
    long_pause_threshold, \* parameter `long_pause_threshold`
    keyQueue,             \* keys typed and not yet returned by stdscr.getch()
    typed,                \* number of keys typed so far
    file_states,          \* dict file -> content
    scroll_states,        \* dict file -> top line of the viewport
    event,                \* local `event` of the frame on screen (df.iloc[i])
    cursor,               \* <<cursor_y, cursor_x>> of the frame on screen
    visible_height,       \* local `visible_height` of the frame on screen
    wait,                 \* the sleep the loop has just performed
    termLog,              \* history: Text of every TERMINAL event processed
    applied,              \* history: loop indices whose event was processed
    call,                 \* arguments of a direct call of a helper
    ret,                  \* what that call returned
    error                 \* what the data loading reported ("none" when it succeeded)

vars == <<N, i, pc, paused, speed_factor, long_pause_threshold, keyQueue, typed,
          file_states, scroll_states, event, cursor, visible_height, wait,
          termLog, applied, call, ret, error>>

----------------------------------------------------------------------------
(* Bounds of the model *)

MaxEvents == 3
MaxKeys == 2
MaxEdits == 2
MaxEditKeys == 2
MaxHeight == 5
MaxOffset == 2
MaxLen == 3

----------------------------------------------------------------------------
(* Characters and generic helpers *)

NL == "\n"
CR == "\r"
BSL == "\\"
SP == " "

Min(a, b) == IF a <= b THEN a ELSE b
Max(a, b) == IF a >= b THEN a ELSE b

RECURSIVE GCD(_, _)
GCD(a, b) == IF b = 0 THEN a ELSE GCD(b, a % b)

\* Python floats, kept exact: n/d with d > 0, in lowest terms.
Rat(n, d) == LET g == GCD(IF n < 0 THEN -n ELSE n, d)
             IN  IF n = 0 THEN [n |-> 0, d |-> 1] ELSE [n |-> n \div g, d |-> d \div g]
RatLE(a, b) == a.n * b.d <= b.n * a.d
RatMin(a, b) == IF RatLE(a, b) THEN a ELSE b
RatMax(a, b) == IF RatLE(a, b) THEN b ELSE a
RatMul(a, b) == Rat(a.n * b.n, a.d * b.d)
\* a / b for b > 0
RatDiv(a, b) == Rat(a.n * b.d, a.d * b.n)

\* s[:hi] and s[lo:] of Python: a negative index counts from the end, and
\* every index is then clipped into [0, len(s)].
py_index(len, k) == IF k < 0 THEN Max(len + k, 0) ELSE Min(k, len)
slice_to(s, hi) == SubSeq(s, 1, py_index(Len(s), hi))
slice_from(s, lo) == SubSeq(s, py_index(Len(s), lo) + 1, Len(s))

\* str.replace(old, new): left to right, non-overlapping.
RECURSIVE replace(_, _, _)
replace(s, old, new) ==
    IF Len(s) < Len(old) THEN s
    ELSE IF SubSeq(s, 1, Len(old)) = old
         THEN new \o replace(SubSeq(s, Len(old) + 1, Len(s)), old, new)
         ELSE <<Head(s)>> \o replace(Tail(s), old, new)

\* str.count(c) of a one-character c
RECURSIVE count(_, _)
count(s, c) == IF s = <<>> THEN 0
               ELSE (IF Head(s) = c THEN 1 ELSE 0) + count(Tail(s), c)

\* str.rfind(c): the 0-based index of the last c, or -1
rfind(s, c) == LET hits == {k \in 1..Len(s) : s[k] = c}
               IN  IF hits = {} THEN -1
                   ELSE (CHOOSE k \in hits : \A m \in hits : m <= k) - 1

spaces(k) == [j \in 1..k |-> SP]

\* pandas' missing value in the Text column
NaN == <<"NaN">>
notna(t) == t # NaN

\* .replace('\\n', '\n').replace('\\r', '\r')
decode(text) == replace(replace(text, <<BSL, "n">>, <<NL>>), <<BSL, "r">>, <<CR>>)

----------------------------------------------------------------------------
(* The pure helpers *)

offset_to_yx(content, offset) ==
    LET off == Min(Len(content), offset)
        before == slice_to(content, off)
        y == count(before, NL)
        last_newline_pos == rfind(before, NL)
        x == IF last_newline_pos = -1 THEN off ELSE off - last_newline_pos - 1
    IN  <<y, x>>

\* mutant: the text is typed over what follows the offset instead of being
\* inserted before it
apply_change_overwrite(content, offset, length, new_text) ==
    LET text == decode(IF notna(new_text) THEN new_text ELSE <<>>)
        padded == IF offset > Len(content)
                  THEN content \o spaces(offset - Len(content))
                  ELSE content
    IN  slice_to(padded, offset) \o text
            \o slice_from(padded, offset + Max(length, Len(text)))

apply_change(content, offset, length, new_text) ==
    LET text == decode(IF notna(new_text) THEN new_text ELSE <<>>)
        padded == IF offset > Len(content)
                  THEN content \o spaces(offset - Len(content))
                  ELSE content
    IN  slice_to(padded, offset) \o text \o slice_from(padded, offset + length)

----------------------------------------------------------------------------
(* The replay loop *)

TERMINAL == "TERMINAL"
Files == {TERMINAL, "main.py"}
Keys == {"q", " ", "UP", "DOWN", "x"}
NoKey == "none"

DefaultSpeed == 20
DefaultThreshold == 120000
SpeedCap == 100
LongPauseHold == 4

NoEvent == [File |-> "none", RangeOffset |-> 0, RangeLength |-> 0, Text |-> NaN]
NoCursor == <<-1, -1>>
NoWait == [kind |-> "none", delta |-> 0, speed |-> Rat(0, 1), dur |-> Rat(0, 1)]
NoCall == [content |-> <<>>, offset |-> 0, length |-> 0, text |-> NaN]
NoRet == [fn |-> "none", val |-> <<>>]

\* the command line: --speed (any float), --long_pause_threshold (any int)
Speeds == {Rat(DefaultSpeed, 1), Rat(500, 1), Rat(1, 20)}
Thresholds == {DefaultThreshold, 500}
\* Time differences of consecutive rows of the sorted log
Deltas == {0, 500, DefaultThreshold, 129500}
\* stdscr.getmaxyx()
Heights == 1..MaxHeight

Texts == {NaN, <<"x">>, <<BSL, "n">>}
EventSet == [File : Files, RangeOffset : (-1)..MaxOffset, RangeLength : (-1)..1,
             Text : Texts]

\* stdscr.getch() with nodelay(1): the oldest pending key, or nothing
getch == IF keyQueue = <<>> THEN NoKey ELSE Head(keyQueue)
pending == IF keyQueue = <<>> THEN <<>> ELSE Tail(keyQueue)

\* lines 66-67
on_speed_key(key, s) ==
    IF key = "UP" THEN RatMin(Rat(SpeedCap, 1), RatMul(s, Rat(3, 2)))
    ELSE IF key = "DOWN" THEN RatMax(Rat(1, 10), RatDiv(s, Rat(3, 2)))
    ELSE s

\* mutant: every key but quit toggles the pause
on_pause_key_any(key, p) == IF key \in {" ", "UP", "DOWN", "x"} THEN ~p ELSE p

\* line 65
on_pause_key(key, p) == IF key = " " THEN ~p ELSE p

\* mutant: the terminal stream patched like a file
terminal_patched(content, e) ==
    apply_change(content, e.RangeOffset, e.RangeLength, e.Text)

\* lines 93-96
terminal_append(content, e) ==
    content \o decode(IF notna(e.Text) THEN e.Text ELSE <<>>) \o <<NL>>

\* mutant: the scroll-down branch off by one
update_scroll_off_by_one(active_file, content, cursor_y, scroll_y, vh) ==
    IF active_file = TERMINAL
    THEN LET total_lines == count(content, NL) + 1
         IN  IF total_lines > vh THEN Max(0, total_lines - vh) ELSE scroll_y
    ELSE IF cursor_y < scroll_y THEN cursor_y
         ELSE IF cursor_y >= scroll_y + vh THEN cursor_y - vh
         ELSE scroll_y

\* mutant: the view follows the cursor at its bottom row whenever the cursor
\* is not above it
update_scroll_follow(active_file, content, cursor_y, scroll_y, vh) ==
    IF active_file = TERMINAL
    THEN LET total_lines == count(content, NL) + 1
         IN  IF total_lines > vh THEN Max(0, total_lines - vh) ELSE scroll_y
    ELSE IF cursor_y < scroll_y THEN cursor_y
         ELSE cursor_y - vh + 1

\* lines 111-122
update_scroll(active_file, content, cursor_y, scroll_y, vh) ==
    IF active_file = TERMINAL
    THEN LET total_lines == count(content, NL) + 1
         IN  IF total_lines > vh THEN Max(0, total_lines - vh) ELSE scroll_y
    ELSE IF cursor_y < scroll_y THEN cursor_y
         ELSE IF cursor_y >= scroll_y + vh THEN cursor_y - vh + 1
         ELSE scroll_y

\* mutant: a gap equal to the threshold counted as a long pause
is_long_pause_ge(time_delta_ms, threshold) == time_delta_ms >= threshold

\* line 164
is_long_pause(time_delta_ms, threshold) == time_delta_ms > threshold

\* lines 161 and 173: the argument of time.sleep, in seconds
scaled_sleep(time_delta_ms, speed) ==
    RatDiv(RatMax(Rat(0, 1), Rat(time_delta_ms, 1000)), speed)

\* mutant: the assignment replaces the dictionary by one holding that key only
Put_alone(d, k, v) == [x \in {k} |-> v]

\* d[k] = v on a dictionary
Put(d, k, v) == [x \in DOMAIN d \cup {k} |-> IF x = k THEN v ELSE d[x]]

InitOf(Ns, Ss, Ts, Cs) ==
    /\ N \in Ns
    /\ i = 0
    /\ pc = "load"
    /\ paused = FALSE
    /\ speed_factor \in Ss
    /\ long_pause_threshold \in Ts
    /\ keyQueue = <<>>
    /\ typed = 0
    /\ file_states = <<>>
    /\ scroll_states = <<>>
    /\ event = NoEvent
    /\ cursor = NoCursor
    /\ visible_height = 0
    /\ wait = NoWait
    /\ termLog = <<>>
    /\ applied = <<>>
    /\ call \in Cs
    /\ ret = NoRet
    /\ error = "none"

\* mutant: the failure is reported and the function goes on into the loop
LoadLogNoReturn(Fs) ==
    /\ pc = "load"
    /\ \E found \in Fs : error' = IF found THEN "none" ELSE "not found"
    /\ pc' = "top"
    /\ UNCHANGED <<N, i, paused, speed_factor, long_pause_threshold, keyQueue,
                   typed, file_states, scroll_states, event, cursor, visible_height,
                   wait, termLog, applied, call, ret>>

\* lines 47-52: read and sort the log (N rows), or report that it is missing
\* and return
LoadLog(Fs) ==
    /\ pc = "load"
    /\ \E found \in Fs :
         IF found THEN pc' = "top" /\ error' = "none"
         ELSE pc' = "done" /\ error' = "not found"
    /\ UNCHANGED <<N, i, paused, speed_factor, long_pause_threshold, keyQueue,
                   typed, file_states, scroll_states, event, cursor, visible_height,
                   wait, termLog, applied, call, ret>>

\* The user presses a key; curses queues it until the next getch().  The loop
\* reads keys only after a sleep (or at its start), so a key pressed at any
\* other moment is one pressed during the sleep that follows.
UserKey(Ks, budget) ==
    /\ pc \in {"top", "paused", "wait"}
    /\ typed < budget
    /\ \E k \in Ks : keyQueue' = Append(keyQueue, k)
    /\ typed' = typed + 1
    /\ UNCHANGED <<N, i, pc, paused, speed_factor, long_pause_threshold,
                   file_states, scroll_states, event, cursor, visible_height,
                   wait, termLog, applied, call, ret, error>>

\* lines 61-73: the head of the for loop and the top of an iteration.
\* i counts the iterations started; i = N is the exhausted range.
LoopTop ==
    /\ pc = "top"
    /\ IF i >= N
       THEN /\ pc' = "done"
            /\ UNCHANGED <<keyQueue, paused, speed_factor>>
       ELSE /\ keyQueue' = pending
            /\ IF getch = "q"
               THEN /\ pc' = "done"
                    /\ UNCHANGED <<paused, speed_factor>>
               ELSE /\ paused' = on_pause_key(getch, paused)
                    /\ speed_factor' = on_speed_key(getch, speed_factor)
                    /\ pc' = IF paused' THEN "paused" ELSE "event"
    /\ wait' = NoWait
    /\ UNCHANGED <<N, i, long_pause_threshold, typed, file_states, scroll_states,
                   event, cursor, visible_height, termLog, applied, call, ret, error>>

\* mutant: the pause polls once and goes on without waiting for a key
PausePollOnce ==
    /\ pc = "paused"
    /\ keyQueue' = pending
    /\ IF getch = " " THEN paused' = FALSE /\ pc' = "event"
       ELSE IF getch = "q" THEN pc' = "done" /\ UNCHANGED paused
       ELSE pc' = "event" /\ UNCHANGED paused
    /\ UNCHANGED <<N, i, speed_factor, long_pause_threshold, typed, file_states,
                   scroll_states, event, cursor, visible_height, wait, termLog,
                   applied, call, ret, error>>

\* mutant: unpausing resumes at the wait of the iteration, past its event
PausePollSkip ==
    /\ pc = "paused"
    /\ keyQueue' = pending
    /\ IF getch = " " THEN paused' = FALSE /\ pc' = "wait"
       ELSE IF getch = "q" THEN pc' = "done" /\ UNCHANGED paused
       ELSE UNCHANGED <<pc, paused>>
    /\ UNCHANGED <<N, i, speed_factor, long_pause_threshold, typed, file_states,
                   scroll_states, event, cursor, visible_height, wait, termLog,
                   applied, call, ret, error>>

\* mutant: the pause loop handles the speed keys as the top of the loop does
PausePollSpeed ==
    /\ pc = "paused"
    /\ keyQueue' = pending
    /\ IF getch = " " THEN paused' = FALSE /\ pc' = "event"
       ELSE IF getch = "q" THEN pc' = "done" /\ UNCHANGED paused
       ELSE UNCHANGED <<pc, paused>>
    /\ speed_factor' = on_speed_key(getch, speed_factor)
    /\ UNCHANGED <<N, i, long_pause_threshold, typed, file_states,
                   scroll_states, event, cursor, visible_height, wait, termLog,
                   applied, call, ret, error>>

\* lines 74-78: one round of the pause loop
PausePoll ==
    /\ pc = "paused"
    /\ keyQueue' = pending
    /\ IF getch = " " THEN paused' = FALSE /\ pc' = "event"
       ELSE IF getch = "q" THEN pc' = "done" /\ UNCHANGED paused
       ELSE UNCHANGED <<pc, paused>>
    /\ UNCHANGED <<N, i, speed_factor, long_pause_threshold, typed, file_states,
                   scroll_states, event, cursor, visible_height, wait, termLog,
                   applied, call, ret, error>>

\* lines 80-156: apply the event, place the cursor, scroll, render
ProcessEvent(Es, Hs) ==
    /\ pc = "event"
    /\ \E e \in Es, height \in Hs :
         LET active_file == e.File
             known == active_file \in DOMAIN file_states
             old == IF known THEN file_states[active_file] ELSE <<>>
             old_scroll == IF known THEN scroll_states[active_file] ELSE 0
             content == IF active_file = TERMINAL
                        THEN terminal_append(old, e)
                        ELSE apply_change(old, e.RangeOffset, e.RangeLength, e.Text)
             yx == offset_to_yx(content, e.RangeOffset)
             vh == height - 2
             scroll_y == update_scroll(active_file, content, yx[1], old_scroll, vh)
         IN  /\ file_states' = Put(file_states, active_file, content)
             /\ scroll_states' = Put(scroll_states, active_file, scroll_y)
             /\ event' = e
             /\ cursor' = yx
             /\ visible_height' = vh
             /\ termLog' = IF active_file = TERMINAL THEN Append(termLog, e.Text)
                           ELSE termLog
             \* addstr(height - 2, ...) of the status bar raises on row -1
             /\ pc' = IF height < 2 THEN "crashed" ELSE "wait"
    /\ applied' = Append(applied, i)
    /\ UNCHANGED <<N, i, paused, speed_factor, long_pause_threshold, keyQueue,
                   typed, wait, call, ret, error>>

\* lines 158-173, then back to the head of the loop.  The frame's locals are
\* dead from here on (each is assigned again before it is read).
Wait(Ds, Hs) ==
    /\ pc = "wait"
    /\ IF i + 1 < N
       THEN \E time_delta_ms \in Ds :
              IF is_long_pause(time_delta_ms, long_pause_threshold)
              THEN \* addstr(height - 3, ...) of the banner raises on a negative
                   \* row, before the hold
                   \E height \in Hs :
                     /\ pc' = IF height < 3 THEN "crashed" ELSE "top"
                     /\ wait' = [kind |-> "long", delta |-> time_delta_ms,
                                 speed |-> speed_factor,
                                 dur |-> IF height < 3 THEN Rat(0, 1)
                                         ELSE Rat(LongPauseHold, 1)]
              ELSE /\ wait' = [kind |-> "scaled", delta |-> time_delta_ms,
                               speed |-> speed_factor,
                               dur |-> scaled_sleep(time_delta_ms, speed_factor)]
                   /\ pc' = "top"
       ELSE /\ pc' = "top"
            /\ wait' = NoWait
    /\ i' = i + 1
    /\ event' = NoEvent
    /\ cursor' = NoCursor
    /\ visible_height' = 0
    /\ UNCHANGED <<N, paused, speed_factor, long_pause_threshold, keyQueue, typed,
                   file_states, scroll_states, termLog, applied, call, ret, error>>

\* PlaybackState of the session
PlaybackState ==
    IF pc \in {"done", "crashed"} THEN "Stopped"
    ELSE IF paused THEN "Paused" ELSE "Running"

----------------------------------------------------------------------------
(* Spec: the playback control.  Every key, every initial speed and         *)
(* threshold, every time difference; the log holds two kinds of rows.      *)

CtlEvents == {[File |-> TERMINAL, RangeOffset |-> 0, RangeLength |-> 0, Text |-> <<"x">>],
              [File |-> "main.py", RangeOffset |-> 0, RangeLength |-> 0, Text |-> <<"x">>]}
CtlHeights == {2, 3}

Init == InitOf(0..MaxEvents, Speeds, Thresholds, {NoCall})

Next ==
    \/ LoadLog(BOOLEAN)
    \/ UserKey(Keys, MaxKeys)
    \/ LoopTop
    \/ PausePoll
    \/ ProcessEvent(CtlEvents, CtlHeights)
    \/ Wait(Deltas, CtlHeights)

Spec == Init /\ [][Next]_vars

----------------------------------------------------------------------------
(* SpecEdit: the content and the viewport.  Every row of EventSet, every   *)
(* terminal height; the default speed and threshold, the pause key.       *)

InitEdit == InitOf(0..MaxEdits, {Rat(DefaultSpeed, 1)}, {DefaultThreshold}, {NoCall})

NextEdit ==
    \/ LoadLog(BOOLEAN)
    \/ UserKey({" "}, MaxEditKeys)
    \/ LoopTop
    \/ PausePoll
    \/ ProcessEvent(EventSet, Heights)
    \/ Wait({500}, Heights)

SpecEdit == InitEdit /\ [][NextEdit]_vars

----------------------------------------------------------------------------
(* SpecScenario: the two insertions of the specification's scenarios A, B. *)

Hello == <<"h", "e", "l", "l", "o">>
World == <<SP, "w", "o", "r", "l", "d">>
ScenarioA == [File |-> "main.py", RangeOffset |-> 0, RangeLength |-> 0, Text |-> Hello]
ScenarioB == [File |-> "main.py", RangeOffset |-> 5, RangeLength |-> 0,
              Text |-> <<BSL, "n">> \o World]

InitScenario == InitOf({1, 2}, {Rat(DefaultSpeed, 1)}, {DefaultThreshold}, {NoCall})

NextScenario ==
    \/ LoadLog(BOOLEAN)
    \/ UserKey(Keys, MaxKeys)
    \/ LoopTop
    \/ PausePoll
    \/ ProcessEvent({ScenarioA, ScenarioB}, {24})
    \/ Wait({500}, {24})

SpecScenario == InitScenario /\ [][NextScenario]_vars

----------------------------------------------------------------------------
(* SpecPure: one direct call of a helper on arguments drawn from bounded   *)
(* sets.                                                                   *)

SeqsUpTo(S, n) == UNION {[1..k -> S] : k \in 0..n}
PureContents == SeqsUpTo({"a", NL}, MaxLen)
PureInts == (-2)..(MaxLen + 1)
PureTexts == {NaN, <<>>, <<"x">>, <<BSL, "n">>, <<BSL, "r">>, <<"x", BSL, "n">>}

PureCalls == [content : PureContents, offset : PureInts, length : PureInts,
              text : PureTexts]

InitPure == InitOf({0}, {Rat(DefaultSpeed, 1)}, {DefaultThreshold}, PureCalls)

CallApplyChange ==
    /\ ret = NoRet
    /\ ret' = [fn |-> "apply_change",
               val |-> apply_change(call.content, call.offset, call.length, call.text)]
    /\ UNCHANGED <<N, i, pc, paused, speed_factor, long_pause_threshold, keyQueue,
                   typed, file_states, scroll_states, event, cursor, visible_height,
                   wait, termLog, applied, call, error>>

CallOffsetToYx ==
    /\ ret = NoRet
    /\ ret' = [fn |-> "offset_to_yx", val |-> offset_to_yx(call.content, call.offset)]
    /\ UNCHANGED <<N, i, pc, paused, speed_factor, long_pause_threshold, keyQueue,
                   typed, file_states, scroll_states, event, cursor, visible_height,
                   wait, termLog, applied, call, error>>

\* offset_to_yx called on the same content with a second offset as well
CallOffsetToYxTwice ==
    /\ ret = NoRet
    /\ \E offset2 \in PureInts :
         ret' = [fn |-> "offset_to_yx twice",
                 val |-> [offset2 |-> offset2,
                          first |-> offset_to_yx(call.content, call.offset),
                          second |-> offset_to_yx(call.content, offset2)]]
    /\ UNCHANGED <<N, i, pc, paused, speed_factor, long_pause_threshold, keyQueue,
                   typed, file_states, scroll_states, event, cursor, visible_height,
                   wait, termLog, applied, call, error>>

NextPure == CallApplyChange \/ CallOffsetToYx \/ CallOffsetToYxTwice

SpecPure == InitPure /\ [][NextPure]_vars

----------------------------------------------------------------------------
(* SpecLive: the session as a running process.  replay_trace is one         *)
(* sequential thread: whenever its next step is possible it is taken (a     *)
(* sleep returns, getch does not block because of nodelay(True), line 42),  *)
(* hence weak fairness of every step of the program.  Nothing is assumed of *)
(* the user, who may type or not.  The log is there, and the terminal has   *)
(* the three rows that the status bar, the help line and the long-pause     *)
(* banner need, so that no curses call fails.                               *)

LiveKeys == {"q", " ", "UP"}
LiveHeights == 3..MaxHeight
LiveDeltas == {500, 129500}

InitLive == InitOf(0..MaxEdits, {Rat(DefaultSpeed, 1)}, {DefaultThreshold}, {NoCall})

NextLive ==
    \/ LoadLog({TRUE})
    \/ UserKey(LiveKeys, MaxKeys)
    \/ LoopTop
    \/ PausePoll
    \/ ProcessEvent(CtlEvents, LiveHeights)
    \/ Wait(LiveDeltas, LiveHeights)

SpecLive ==
    /\ InitLive
    /\ [][NextLive]_vars
    /\ WF_vars(LoadLog({TRUE}))
    /\ WF_vars(LoopTop)
    /\ WF_vars(PausePoll)
    /\ WF_vars(ProcessEvent(CtlEvents, LiveHeights))
    /\ WF_vars(Wait(LiveDeltas, LiveHeights))

----------------------------------------------------------------------------
(* SpecPause: keys typed during a pause.  The default speed, and enough     *)
(* keys for a pause, speed keys typed during it, and the unpause.           *)

MaxPauseKeys == 3
PauseKeys == {"q", " ", "UP", "DOWN"}

InitPause == InitOf(0..MaxEdits, {Rat(DefaultSpeed, 1)}, {DefaultThreshold}, {NoCall})

NextPause ==
    \/ LoadLog(BOOLEAN)
    \/ UserKey(PauseKeys, MaxPauseKeys)
    \/ LoopTop
    \/ PausePoll
    \/ ProcessEvent(CtlEvents, LiveHeights)
    \/ Wait({500}, LiveHeights)

SpecPause == InitPause /\ [][NextPause]_vars

----------------------------------------------------------------------------
(* Claims *)

Range(s) == {s[k] : k \in DOMAIN s}
Clamp(x, lo, hi) == Max(lo, Min(x, hi))
ContentOf(f) == IF f \in DOMAIN file_states THEN file_states[f] ELSE <<>>
FrameShown == pc = "wait" /\ event # NoEvent
ProgramStep == typed' = typed
Reads(k) == ProgramStep /\ pc \in {"top", "paused"} /\ i < N /\ getch = k
Exhausted == pc = "top" /\ i >= N

\* C1: once the quit key has been typed, no further event is applied to any
\* file state, whatever keys were typed before it and wherever the loop was.
C1_QuitStopsAtOnce ==
    [][("q" \in Range(keyQueue)) =>
          /\ file_states' = file_states
          /\ scroll_states' = scroll_states
          /\ applied' = applied]_vars

\* C2: the speed factor used for an inter-event wait lies in [0.1, 100],
\* whatever --speed the session was started with.
C2_SpeedWithinRange ==
    (wait.kind = "scaled" /\ wait.delta > 0) =>
        /\ RatLE(Rat(1, 10), wait.speed)
        /\ RatLE(wait.speed, Rat(SpeedCap, 1))

\* C3 (as stated): after the viewport update of an event on a non-terminal
\* file, scrollTop <= cursorLine < scrollTop + viewportHeight, for any
\* viewport height.
C3_CursorInAnyViewport ==
    (FrameShown /\ event.File # TERMINAL) =>
        /\ scroll_states[event.File] <= cursor[1]
        /\ cursor[1] < scroll_states[event.File] + visible_height

\* C3 (amended): the same, for any viewport height of at least one line.
C3_CursorInViewport ==
    (FrameShown /\ event.File # TERMINAL /\ visible_height >= 1) =>
        /\ scroll_states[event.File] <= cursor[1]
        /\ cursor[1] < scroll_states[event.File] + visible_height

\* C3 witness: a file scrolled down so that the cursor is on the last
\* visible line of a viewport of at least one line.
C3_ScrolledToCursor ==
    /\ FrameShown /\ event.File # TERMINAL /\ visible_height >= 1
    /\ scroll_states[event.File] >= 1
    /\ cursor[1] = scroll_states[event.File] + visible_height - 1

\* C4: while playback is paused no event advances: the loop index, the file
\* contents, the scroll state and the applied events do not change; when the
\* pause ends by quit, the event that was next has not been applied.
C4_PausedBlocks ==
    [][/\ paused => /\ i' = i
                    /\ file_states' = file_states
                    /\ scroll_states' = scroll_states
                    /\ applied' = applied
       /\ (paused /\ pc' = "done") => (paused' /\ i \notin Range(applied'))]_vars

\* C4 witness: a pause ended by quit with events of the log still to come.
C4_QuitWhilePaused == paused /\ pc = "done" /\ Len(applied) < N /\ i \notin Range(applied)

\* C5: the playback state starts Running; the pause key takes Running to
\* Paused and Paused to Running; quit or the exhausted stream takes any state
\* to Stopped; Stopped is terminal; no other key changes the playback state.
C5_PlaybackMachine ==
    /\ PlaybackState = "Running"
    /\ [][/\ Reads(" ") => \/ PlaybackState = "Running" /\ PlaybackState' = "Paused"
                           \/ PlaybackState = "Paused" /\ PlaybackState' = "Running"
          /\ Reads("q") => PlaybackState' = "Stopped"
          /\ (ProgramStep /\ Exhausted) => PlaybackState' = "Stopped"
          /\ PlaybackState # "Stopped"
          /\ (\E k \in {"UP", "DOWN", "x", NoKey} : Reads(k)) =>
                 PlaybackState' = PlaybackState
          /\ ~ProgramStep => PlaybackState' = PlaybackState
          /\ (PlaybackState' # PlaybackState /\ pc' # "crashed" /\ pc # "load") =>
                 (Reads(" ") \/ Reads("q") \/ Exhausted)]_vars

\* C5 witness: the session stopped by quit while paused, after an event.
C5_StoppedFromPaused == PlaybackState = "Stopped" /\ paused /\ applied # <<>>

\* C6: the long-pause branch (fixed 4 second hold, once the banner is drawn)
\* is taken exactly when delta > longPauseThresholdMs, whatever the speed
\* factor; otherwise the wait is delta / speedFactor (in seconds, delta in
\* ms); delta equal to the threshold is a scaled wait.
C6_LongPauseBranch ==
    wait.kind # "none" =>
        /\ wait.kind = "long" <=> wait.delta > long_pause_threshold
        /\ (wait.kind = "long" /\ pc # "crashed") => wait.dur = Rat(LongPauseHold, 1)
        /\ wait.kind = "scaled" =>
               wait.dur = Rat(Max(wait.delta, 0) * speed_factor.d,
                              1000 * speed_factor.n)

\* C6 witness: gaps 500 then 129500 under threshold 120000: the long pause
\* between the second and the third event, at a speed other than the default.
C6_LongPauseAfterSecond ==
    /\ wait.kind = "long" /\ wait.delta = 129500
    /\ wait.dur = Rat(LongPauseHold, 1)
    /\ long_pause_threshold = DefaultThreshold
    /\ i = 2
    /\ speed_factor # Rat(DefaultSpeed, 1)

\* C7: the length of applyChange's result is max(len(content), offset)
\* - removedCount + len(decodedText), with removedCount =
\* clamp(length, 0, max(len(content), offset) - offset); stated here for the
\* offsets >= 0 alone, any length and any text.
C7_ResultLength ==
    (ret.fn = "apply_change" /\ call.offset >= 0) =>
        LET base == Max(Len(call.content), call.offset)
            removedCount == Clamp(call.length, 0, base - call.offset)
            decodedText == decode(IF call.text = NaN THEN <<>> ELSE call.text)
        IN  Len(ret.val) = base - removedCount + Len(decodedText)

RECURSIVE Transcript(_)
Transcript(log) ==
    IF log = <<>> THEN <<>>
    ELSE decode(IF Head(log) = NaN THEN <<>> ELSE Head(log)) \o <<NL>>
         \o Transcript(Tail(log))

\* C8: the terminal stream is the concatenation, in processing order, of each
\* terminal event's decoded text plus one newline, whatever the events'
\* RangeOffset and RangeLength; a missing Text contributes the empty string.
C8_TerminalIsTranscript == ContentOf(TERMINAL) = Transcript(termLog)

\* C8 witness: two terminal events, the first without Text, the second an
\* escaped newline at a non-zero offset and length, with a file event before.
C8_TwoTerminalEvents ==
    /\ Len(termLog) = 2 /\ termLog[1] = NaN /\ termLog[2] = <<BSL, "n">>
    /\ FrameShown /\ event.File = TERMINAL
    /\ event.RangeOffset = 2 /\ event.RangeLength = 1

\* C9: scenario A: content "" and (0, 0, "hello") give "hello" with the cursor
\* at (0, 5); scenario B: content "hello" and (5, 0, backslash-n " world")
\* give "hello", a newline, " world" with the cursor at (1, 6).
C9_ScenarioCursor ==
    [][(pc = "event" /\ pc' = "wait") =>
          /\ (ContentOf("main.py") = <<>> /\ event' = ScenarioA) =>
                 /\ file_states'["main.py"] = Hello
                 /\ cursor' = <<0, 5>>
          /\ (ContentOf("main.py") = Hello /\ event' = ScenarioB) =>
                 /\ file_states'["main.py"] = Hello \o <<NL>> \o World
                 /\ cursor' = <<1, 6>>]_vars

\* C10: after every terminal event, for any viewport height, the stored
\* scrollTop of the terminal stream is max(0, totalLines - viewportHeight).
C10_TerminalTail ==
    (FrameShown /\ event.File = TERMINAL) =>
        scroll_states[TERMINAL] =
            Max(0, count(file_states[TERMINAL], NL) + 1 - visible_height)

\* C11: the line returned by offset_to_yx never decreases as the offset grows:
\* for one content and any two integer offsets o1 <= o2, below 0 and above
\* the length included, the line of o1 is at most the line of o2.
C11_LineMonotonic ==
    (ret.fn = "offset_to_yx twice" /\ call.offset <= ret.val.offset2) =>
        ret.val.first[1] <= ret.val.second[1]

\* C12: an edit of length 0 removes nothing: the result of apply_change is
\* the content, padded with spaces up to the offset when the offset lies
\* beyond its end, with the decoded text inserted at one position, so every
\* character of the content is still there and in its original order.
C12_InsertionKeepsContent ==
    (ret.fn = "apply_change" /\ call.length = 0) =>
        LET padded == call.content
                        \o [k \in 1..Max(0, call.offset - Len(call.content)) |-> SP]
            text == decode(IF notna(call.text) THEN call.text ELSE <<>>)
        IN  /\ Len(ret.val) = Len(padded) + Len(text)
            /\ \E at \in 0..Len(padded) :
                  /\ SubSeq(ret.val, 1, at) = SubSeq(padded, 1, at)
                  /\ SubSeq(ret.val, at + 1, at + Len(text)) = text
                  /\ SubSeq(ret.val, at + Len(text) + 1, Len(ret.val))
                        = SubSeq(padded, at + 1, Len(padded))

\* C12 witness: an escaped text inserted beyond the end of a non-empty content
C12_InsertedBeyondEnd ==
    /\ ret.fn = "apply_change"
    /\ call.length = 0
    /\ call.content = <<"a", NL>>
    /\ call.offset = Len(call.content) + 1
    /\ call.text = <<"x", BSL, "n">>
    /\ ret.val = <<"a", NL, SP, "x", NL>>

\* C13: when the input log cannot be found the failure is reported and the
\* session is over without the replay loop having been entered: no event was
\* processed, no file state exists and no frame was rendered.
C13_MissingLogEndsSession ==
    (error # "none") =>
        /\ error = "not found"
        /\ pc = "done"
        /\ i = 0
        /\ applied = <<>>
        /\ DOMAIN file_states = {}
        /\ DOMAIN scroll_states = {}
        /\ termLog = <<>>
        /\ event = NoEvent /\ cursor = NoCursor /\ wait = NoWait

\* C13 witness: a log of MaxEvents rows was asked for but is not there
C13_MissingLogReported == error = "not found" /\ pc = "done" /\ N = MaxEvents

\* C14: a RangeLength that is <= 0 or reaches beyond the end is normalised:
\* apply_change(content, offset, length, text) equals apply_change with the
\* length clamped into 0 .. max(len(content), offset) - offset, so a negative
\* length is a pure insertion that neither duplicates nor removes a character.
C14_LengthNormalised ==
    (ret.fn = "apply_change" /\ call.offset >= 0) =>
        ret.val = apply_change(call.content, call.offset,
                               Clamp(call.length, 0,
                                     Max(Len(call.content), call.offset) - call.offset),
                               call.text)

\* the line and column of an offset already within 0 .. len(content):
\* the newlines strictly before it, and its distance from the character after
\* the nearest preceding newline (from the start when there is none)
LineCol(content, at) ==
    LET newlines == {k \in 1..at : content[k] = NL}
        last == IF newlines = {} THEN 0 ELSE CHOOSE k \in newlines : \A m \in newlines : m <= k
    IN  <<Cardinality(newlines), at - last>>

\* C15: offset_to_yx clamps the offset into 0 .. len(content) before anything
\* else: for every integer offset it returns the line and column of the
\* clamped offset.
C15_OffsetClamped ==
    (ret.fn = "offset_to_yx") =>
        ret.val = LineCol(call.content, Clamp(call.offset, 0, Len(call.content)))

\* C16: processing one event changes the state of one file only, the one the
\* event names: every other file keeps its content and its scrollTop; a
\* file's record appears only with the first event naming it, starting from
\* content "" and scrollTop 0, and is never removed; no other step touches
\* any record.
C16_OneFilePerEvent ==
    [][LET known == DOMAIN file_states
       IN  /\ DOMAIN scroll_states' = DOMAIN file_states'
           /\ IF applied' # applied
              THEN LET f == event'.File
                   IN  /\ DOMAIN file_states' = known \cup {f}
                       /\ \A g \in known \ {f} :
                             /\ file_states'[g] = file_states[g]
                             /\ scroll_states'[g] = scroll_states[g]
                       /\ f \notin known =>
                             /\ file_states'[f] =
                                   IF f = TERMINAL
                                   THEN terminal_append(<<>>, event')
                                   ELSE apply_change(<<>>, event'.RangeOffset,
                                                     event'.RangeLength, event'.Text)
                             /\ scroll_states'[f] =
                                   update_scroll(f, file_states'[f], cursor'[1], 0,
                                                 visible_height')
              ELSE /\ file_states' = file_states
                   /\ scroll_states' = scroll_states]_vars

\* C16 witness: the second event created a second file while the first file,
\* scrolled by one line, kept its content and its scrollTop
C16_SecondFileCreated ==
    /\ FrameShown
    /\ applied = <<0, 1>>
    /\ event.File = "main.py"
    /\ DOMAIN file_states = {TERMINAL, "main.py"}
    /\ file_states[TERMINAL] # <<>>
    /\ scroll_states[TERMINAL] = 1
    /\ file_states["main.py"] # <<>>

\* C17: every stored scrollTop is >= 0, for every file, after any sequence of
\* events and for any viewport height, those that make the visible height
\* zero or negative included.
C17_ScrollTopNonNegative ==
    \A f \in DOMAIN scroll_states : scroll_states[f] >= 0

\* C17 witness: a one-row terminal (visible height -1) and an editor file
\* scrolled down to its cursor line
C17_ScrolledWithNegativeHeight ==
    /\ event # NoEvent
    /\ event.File = "main.py"
    /\ visible_height < 0
    /\ cursor[1] >= 1
    /\ scroll_states["main.py"] >= 1

\* the indices 0 .. n-1 in order
Indices(n) == [k \in 1..n |-> k - 1]

C19_SpeedKeysDroppedInPause ==
    [][/\ paused => speed_factor' = speed_factor
       /\ (ProgramStep /\ pc = "paused" /\ getch \in {"UP", "DOWN"}) =>
             /\ keyQueue' = Tail(keyQueue)
             /\ pc' = "paused" /\ paused'
             /\ speed_factor' = speed_factor
       /\ speed_factor' # speed_factor =>
             /\ pc = "top" /\ ~paused
             /\ getch \in {"UP", "DOWN"}
             /\ keyQueue' = Tail(keyQueue)
             /\ speed_factor' = on_speed_key(getch, speed_factor)]_vars

\* C19 witness: every key typed was read before the first event, that is a
\* pause, speed keys during it and the unpause, and the speed is the initial
\* one
C19_UnpausedAtSameSpeed ==
    /\ pc = "event"
    /\ i = 0
    /\ ~paused
    /\ typed = MaxPauseKeys
    /\ typed >= 3
    /\ keyQueue = <<>>
    /\ speed_factor = Rat(DefaultSpeed, 1)

====
